---- MODULE Spec2Model ----
(***************************************************************************)
(* Model of gemini.py: a command-line client that resolves a prompt from   *)
(* its arguments or standard input, sends it to the Gemini API through     *)
(* call_gemini, prints the result and maps it to an exit code.             *)
(*                                                                         *)
(* Python strings on which the program computes (join, strip, lower,       *)
(* startswith, +) are sequences of one-character strings.  Strings that    *)
(* are only passed along (model names, fixed messages written to the       *)
(* error stream) are TLA+ strings.                                         *)
(***************************************************************************)
EXTENDS Integers, Sequences, FiniteSets, TLC

VARIABLES
    cmdline,     \* the command line: [parts: positional tokens, model: --model value or None]
    stdin,       \* content of standard input
    isatty,      \* sys.stdin.isatty()
    api_key,     \* the GEMINI_API_KEY environment variable: [set, value]
    pc,          \* position of the process in main() / call_gemini()
    args,        \* result of parser.parse_args()
    prompt,      \* local variable prompt of main()
    call_args,   \* arguments of the call_gemini invocation
    response,    \* value returned by model.generate_content
    raised,      \* exception raised inside the try block of call_gemini
    ret_line,    \* which return statement call_gemini took, "None" before
    result,      \* local variable result of main()
    stdout,      \* values printed to standard output, in order
    stderr,      \* messages written to standard error, in order
    exit_code,   \* process exit status, meaningful once pc = "exited"
    log          \* calls issued to stdin and to the client library, in order

vars == <<cmdline, stdin, isatty, api_key, pc, args, prompt, call_args,
          response, raised, ret_line, result, stdout, stderr, exit_code, log>>

None == "None"

(***************************************************************************)
(* Bounds of the model                                                     *)
(***************************************************************************)
MaxArgs == 2        \* at most this many positional tokens
MaxStdinLen == 3    \* at most this many characters on standard input

(***************************************************************************)
(* Input domains                                                           *)
(***************************************************************************)
\* characters str.strip() removes (ASCII whitespace)
Whitespace == {" ", "\t", "\n", "\r"}

\* positional tokens the shell may hand over, the empty and blank ones included
ArgTokens == { <<>>, <<" ">>, <<"a">>, <<"2", "+", "2", "?">> }

StdinChars == {"\n", "p"}

ModelFlags == {None, "gemini-pro"}

\* the environment: variable unset, set to the empty string, set to a key
ApiKeys ==
    { [set |-> FALSE, value |-> <<>>],
      [set |-> TRUE, value |-> <<>>],
      [set |-> TRUE, value |-> <<"k">>] }

\* response.text values the service may produce
ResponseTexts ==
    { <<"4">>,
      <<" ", "4", "\n">>,
      <<>>,
      <<"E", "r", "r", "o", "r", ":", " ", "n", "o">>,
      <<"\n", "e", "r", "r", "o", "r", ":">>,
      <<"E", "r", "r", "o", "r", "s">> }

\* number of candidates in a response
CandidateCounts == {0, 1}

\* class of a raised exception: an instance of Exception, or of BaseException
\* only (KeyboardInterrupt, SystemExit, GeneratorExit)
ExcKinds == {"Exception", "BaseException"}

\* str(e) of a raised exception
ExcMessages == { <<>>, <<"t", "i", "m", "e", "o", "u", "t">> }

SeqsUpTo(S, n) == UNION { [1..k -> S] : k \in 0..n }

(***************************************************************************)
(* Fixed strings of the program                                            *)
(***************************************************************************)
\* "Error: GEMINI_API_KEY environment variable not set."
ErrNoKey ==
    <<"E","r","r","o","r",":"," ","G","E","M","I","N","I","_","A","P","I","_",
      "K","E","Y"," ","e","n","v","i","r","o","n","m","e","n","t"," ","v","a",
      "r","i","a","b","l","e"," ","n","o","t"," ","s","e","t",".">>

\* "Error: No content generated (check safety settings or prompt)."
ErrNoContent ==
    <<"E","r","r","o","r",":"," ","N","o"," ","c","o","n","t","e","n","t"," ",
      "g","e","n","e","r","a","t","e","d"," ","(","c","h","e","c","k"," ","s",
      "a","f","e","t","y"," ","s","e","t","t","i","n","g","s"," ","o","r"," ",
      "p","r","o","m","p","t",")",".">>

\* "Error calling Gemini API: "
ErrCallingPrefix ==
    <<"E","r","r","o","r"," ","c","a","l","l","i","n","g"," ","G","e","m","i",
      "n","i"," ","A","P","I",":"," ">>

\* "Context: Linux. Provide a concise response:\n"
system_prompt ==
    <<"C","o","n","t","e","x","t",":"," ","L","i","n","u","x","."," ","P","r",
      "o","v","i","d","e"," ","a"," ","c","o","n","c","i","s","e"," ","r","e",
      "s","p","o","n","s","e",":","\n">>

\* "error:"
ErrorTag == <<"e","r","r","o","r",":">>

\* default of the --model flag
FlagDefaultModel == "gemini-1.5-flash-latest"

HintMsg == "Enter prompt (press Ctrl+D on Linux/macOS or Ctrl+Z then Enter on Windows to end):"
NoPromptMsg == "Error: No prompt provided either as argument or via stdin."
HelpText == "parser.print_help()"

(***************************************************************************)
(* String functions                                                        *)
(***************************************************************************)
UpperLetters ==
    <<"A","B","C","D","E","F","G","H","I","J","K","L","M","N","O","P","Q","R",
      "S","T","U","V","W","X","Y","Z">>

LowerLetters ==
    <<"a","b","c","d","e","f","g","h","i","j","k","l","m","n","o","p","q","r",
      "s","t","u","v","w","x","y","z">>

LowerChar(c) ==
    IF \E i \in 1..26 : UpperLetters[i] = c
    THEN LowerLetters[CHOOSE i \in 1..26 : UpperLetters[i] = c]
    ELSE c

\* str.lower()
Lower(s) == [i \in 1..Len(s) |-> LowerChar(s[i])]

\* str.startswith(p)
StartsWith(s, p) == Len(s) >= Len(p) /\ SubSeq(s, 1, Len(p)) = p

RECURSIVE LStrip(_)
LStrip(s) == IF s # <<>> /\ Head(s) \in Whitespace THEN LStrip(Tail(s)) ELSE s

RECURSIVE RStrip(_)
RStrip(s) ==
    IF s # <<>> /\ s[Len(s)] \in Whitespace
    THEN RStrip(SubSeq(s, 1, Len(s) - 1))
    ELSE s

\* variant: the text is used untrimmed
Strip_identity(s) == s

\* str.strip()
Strip(s) == RStrip(LStrip(s))

\* variant: "".join(parts)
RECURSIVE Join_nosep(_)
Join_nosep(parts) ==
    IF parts = <<>> THEN <<>> ELSE parts[1] \o Join_nosep(Tail(parts))

\* " ".join(parts)
RECURSIVE Join(_)
Join(parts) ==
    IF parts = <<>> THEN <<>>
    ELSE IF Len(parts) = 1 THEN parts[1]
    ELSE parts[1] \o <<" ">> \o Join(Tail(parts))

\* variant: only the empty string counts as a missing credential
NotApiKey_emptyonly(k) == k.set /\ k.value = <<>>

\* "not api_key" for the value of os.environ.get: None (unset) or a str
NotApiKey(k) == ~k.set \/ k.value = <<>>

(***************************************************************************)
(* Values of the not-yet-assigned locals                                   *)
(***************************************************************************)
NoArgs == [parsed |-> FALSE, prompt_parts |-> <<>>, model |-> None]
NoCall == [called |-> FALSE, prompt_text |-> <<>>, model_name |-> None]
NoResponse == [received |-> FALSE, candidates |-> 0, text |-> <<>>]
NoException == [kind |-> None, msg |-> <<>>, at |-> None]

Event(op, text, model) == [op |-> op, text |-> text, model |-> model]

(***************************************************************************)
(* Initial state: the process has been started with some command line,     *)
(* standard input and environment, and main() has not yet run.             *)
(***************************************************************************)
Init ==
    /\ cmdline \in [parts : SeqsUpTo(ArgTokens, MaxArgs), model : ModelFlags]
    /\ stdin \in SeqsUpTo(StdinChars, MaxStdinLen)
    /\ isatty \in BOOLEAN
    /\ api_key \in ApiKeys
    /\ pc = "parse_args"
    /\ args = NoArgs
    /\ prompt = <<>>
    /\ call_args = NoCall
    /\ response = NoResponse
    /\ raised = NoException
    /\ ret_line = None
    /\ result = <<>>
    /\ stdout = <<>>
    /\ stderr = <<>>
    /\ exit_code = 0
    /\ log = <<>>

(***************************************************************************)
(* main(), lines 64-97                                                     *)
(***************************************************************************)
\* the value argparse stores for --model
ModelOption(flag) == IF flag = None THEN FlagDefaultModel ELSE flag

\* args = parser.parse_args(); prompt = ""
ParseArgs ==
    /\ pc = "parse_args"
    /\ args' = [parsed |-> TRUE,
                prompt_parts |-> cmdline.parts,
                model |-> ModelOption(cmdline.model)]
    /\ prompt' = <<>>
    /\ pc' = "resolve"
    /\ UNCHANGED <<cmdline, stdin, isatty, api_key, call_args, response, raised,
                   ret_line, result, stdout, stderr, exit_code, log>>

\* variant: the test of the positional arguments is inverted
HasPromptParts_inverted(parts) == parts = <<>>

\* "if args.prompt_parts:" - a list is true when it is not empty
HasPromptParts(parts) == parts # <<>>

\* prompt = " ".join(args.prompt_parts)
JoinArgs ==
    /\ pc = "resolve"
    /\ HasPromptParts(args.prompt_parts)
    /\ prompt' = Join(args.prompt_parts)
    /\ pc' = "call_gemini"
    /\ UNCHANGED <<cmdline, stdin, isatty, api_key, args, call_args, response,
                   raised, ret_line, result, stdout, stderr, exit_code, log>>

\* variant: the hint is written whether or not stdin is a terminal
HintDue_always(tty) == TRUE

\* "if sys.stdin.isatty():"
HintDue(tty) == tty

\* else branch, lines 100-101: the hint for interactive input
CheckTty ==
    /\ pc = "resolve"
    /\ ~HasPromptParts(args.prompt_parts)
    /\ stderr' = IF HintDue(isatty) THEN Append(stderr, HintMsg) ELSE stderr
    /\ pc' = "read_stdin"
    /\ UNCHANGED <<cmdline, stdin, isatty, api_key, args, prompt, call_args,
                   response, raised, ret_line, result, stdout, exit_code, log>>

\* lines 103-107: prompt = sys.stdin.read().strip(); no prompt is an error
ReadStdin ==
    /\ pc = "read_stdin"
    /\ log' = Append(log, Event("stdin.read", <<>>, None))
    /\ prompt' = Strip(stdin)
    /\ IF prompt' = <<>>
       THEN /\ stderr' = stderr \o <<NoPromptMsg, HelpText>>
            /\ exit_code' = 1
            /\ pc' = "exited"
       ELSE /\ pc' = "call_gemini"
            /\ UNCHANGED <<stderr, exit_code>>
    /\ UNCHANGED <<cmdline, stdin, isatty, api_key, args, call_args, response,
                   raised, ret_line, result, stdout>>

(***************************************************************************)
(* call_gemini(prompt_text, model_name), lines 35-58                       *)
(***************************************************************************)
\* "except Exception as e:" catches instances of Exception only
CaughtByExcept(kind) == kind = "Exception"

\* variant: the handler returns str(e) without the fixed prefix
ErrorCalling_noprefix(msg) == msg

\* f"Error calling Gemini API: {e}"
ErrorCalling(msg) == ErrCallingPrefix \o msg

\* full_prompt = system_prompt + prompt_text
FullPrompt(prompt_text) == system_prompt \o prompt_text

\* variant: the test of the candidate list is inverted
NoCandidates_inverted(resp) == resp.candidates # 0

\* "if not response.candidates:"
NoCandidates(resp) == resp.candidates = 0

\* A statement of the try block at position "at" raises an exception of
\* class "kind" with str(e) = msg: the handler at lines 57-58 returns the
\* error string, or the exception leaves call_gemini and main().
Raise(at, kind, msg) ==
    /\ raised' = [kind |-> kind, msg |-> msg, at |-> at]
    /\ IF CaughtByExcept(kind)
       THEN /\ result' = ErrorCalling(msg)
            /\ ret_line' = "return 58"
            /\ pc' = "print"
       ELSE /\ pc' = "uncaught"
            /\ UNCHANGED <<result, ret_line>>

\* result = call_gemini(prompt, args.model), up to the credential check
CallGemini ==
    /\ pc = "call_gemini"
    /\ call_args' = [called |-> TRUE, prompt_text |-> prompt, model_name |-> args.model]
    /\ IF NotApiKey(api_key)
       THEN /\ result' = ErrNoKey
            /\ ret_line' = "return 39"
            /\ pc' = "print"
       ELSE /\ pc' = "configure"
            /\ UNCHANGED <<result, ret_line>>
    /\ UNCHANGED <<cmdline, stdin, isatty, api_key, args, prompt, response,
                   raised, stdout, stderr, exit_code, log>>

\* genai.configure(api_key=api_key)
Configure ==
    /\ pc = "configure"
    /\ log' = Append(log, Event("genai.configure", api_key.value, None))
    /\ \/ /\ pc' = "GenerativeModel"
          /\ UNCHANGED <<raised, result, ret_line>>
       \/ \E kind \in ExcKinds, msg \in ExcMessages : Raise("configure", kind, msg)
    /\ UNCHANGED <<cmdline, stdin, isatty, api_key, args, prompt, call_args,
                   response, stdout, stderr, exit_code>>

\* model = genai.GenerativeModel(model_name)
ConstructModel ==
    /\ pc = "GenerativeModel"
    /\ log' = Append(log, Event("genai.GenerativeModel", <<>>, call_args.model_name))
    /\ \/ /\ pc' = "generate_content"
          /\ UNCHANGED <<raised, result, ret_line>>
       \/ \E kind \in ExcKinds, msg \in ExcMessages : Raise("GenerativeModel", kind, msg)
    /\ UNCHANGED <<cmdline, stdin, isatty, api_key, args, prompt, call_args,
                   response, stdout, stderr, exit_code>>

\* response = model.generate_content(full_prompt)
GenerateContent ==
    /\ pc = "generate_content"
    /\ log' = Append(log, Event("model.generate_content",
                                FullPrompt(call_args.prompt_text),
                                call_args.model_name))
    /\ \/ /\ \E n \in CandidateCounts, text \in ResponseTexts :
                response' = [received |-> TRUE, candidates |-> n, text |-> text]
          /\ pc' = "candidates"
          /\ UNCHANGED <<raised, result, ret_line>>
       \/ /\ \E kind \in ExcKinds, msg \in ExcMessages :
                Raise("generate_content", kind, msg)
          /\ UNCHANGED response
    /\ UNCHANGED <<cmdline, stdin, isatty, api_key, args, prompt, call_args,
                   stdout, stderr, exit_code>>

\* lines 53-54: the check of response.candidates
CheckCandidates ==
    /\ pc = "candidates"
    /\ log' = Append(log, Event("response.candidates", <<>>, None))
    /\ \/ /\ IF NoCandidates(response)
             THEN /\ result' = ErrNoContent
                  /\ ret_line' = "return 54"
                  /\ pc' = "print"
             ELSE /\ pc' = "text"
                  /\ UNCHANGED <<result, ret_line>>
          /\ UNCHANGED raised
       \/ \E kind \in ExcKinds, msg \in ExcMessages : Raise("candidates", kind, msg)
    /\ UNCHANGED <<cmdline, stdin, isatty, api_key, args, prompt, call_args,
                   response, stdout, stderr, exit_code>>

\* return response.text.strip()
ReadText ==
    /\ pc = "text"
    /\ log' = Append(log, Event("response.text", <<>>, None))
    /\ \/ /\ result' = Strip(response.text)
          /\ ret_line' = "return 55"
          /\ pc' = "print"
          /\ UNCHANGED raised
       \/ \E kind \in ExcKinds, msg \in ExcMessages : Raise("text", kind, msg)
    /\ UNCHANGED <<cmdline, stdin, isatty, api_key, args, prompt, call_args,
                   response, stdout, stderr, exit_code>>

(***************************************************************************)
(* main(), lines 112-117                                                   *)
(***************************************************************************)
\* print(result)
PrintResult ==
    /\ pc = "print"
    /\ stdout' = Append(stdout, result)
    /\ pc' = "exit_check"
    /\ UNCHANGED <<cmdline, stdin, isatty, api_key, args, prompt, call_args,
                   response, raised, ret_line, result, stderr, exit_code, log>>

\* result.lower().startswith("error:")
IndicatesError(res) == StartsWith(Lower(res), ErrorTag)

\* lines 116-117: sys.exit(1) for an error result, else main() returns
ExitCheck ==
    /\ pc = "exit_check"
    /\ exit_code' = IF IndicatesError(result) THEN 1 ELSE 0
    /\ pc' = "exited"
    /\ UNCHANGED <<cmdline, stdin, isatty, api_key, args, prompt, call_args,
                   response, raised, ret_line, result, stdout, stderr, log>>

Next ==
    \/ ParseArgs
    \/ JoinArgs
    \/ CheckTty
    \/ ReadStdin
    \/ CallGemini
    \/ Configure
    \/ ConstructModel
    \/ GenerateContent
    \/ CheckCandidates
    \/ ReadText
    \/ PrintResult
    \/ ExitCheck

Spec == Init /\ [][Next]_vars

(***************************************************************************)
(* Vocabulary of the properties                                            *)
(***************************************************************************)
ClientOps ==
    {"genai.configure", "genai.GenerativeModel", "model.generate_content",
     "response.candidates", "response.text"}

ErrorReturns == {"return 39", "return 54", "return 58"}

Issued(op) == \E i \in 1..Len(log) : log[i].op = op

Count(op) == Cardinality({i \in 1..Len(log) : log[i].op = op})

NoClientCall == \A i \in 1..Len(log) : log[i].op \notin ClientOps

AllWhitespace(s) == \A i \in 1..Len(s) : s[i] \in Whitespace

\* p is s without its leading and trailing whitespace
IsTrimOf(p, s) ==
    \E i \in 1..(Len(s) + 1) :
        /\ i + Len(p) - 1 <= Len(s)
        /\ \A k \in 1..Len(p) : p[k] = s[i + k - 1]
        /\ \A k \in 1..(i - 1) : s[k] \in Whitespace
        /\ \A k \in (i + Len(p))..Len(s) : s[k] \in Whitespace
        /\ (p # <<>> => p[1] \notin Whitespace /\ p[Len(p)] \notin Whitespace)

\* index in the joined string just before the first character of parts[i]
RECURSIVE Offset(_, _)
Offset(parts, i) ==
    IF i = 1 THEN 0 ELSE Offset(parts, i - 1) + Len(parts[i - 1]) + 1

\* p is the tokens of parts in order, one space between neighbours
IsJoinOf(p, parts) ==
    /\ Len(p) = Offset(parts, Len(parts)) + Len(parts[Len(parts)])
    /\ \A i \in 1..Len(parts) :
          /\ \A k \in 1..Len(parts[i]) : p[Offset(parts, i) + k] = parts[i][k]
          /\ i > 1 => p[Offset(parts, i)] = " "

(***************************************************************************)
(* Properties                                                              *)
(***************************************************************************)

\* C1: whenever call_gemini returned an error Result (missing credential,
\* no candidates, or a caught exception), the process has printed exactly
\* that Result to standard output and exits with code 1.
C1_ErrorResultPrintedAndExitOne ==
    (pc = "exited" /\ ret_line \in ErrorReturns)
        => (stdout = <<result>> /\ exit_code = 1)

\* C2: call_gemini is never invoked with an empty Prompt: the resolver
\* hands over a non-empty Prompt, or the process ends with a non-zero exit
\* code without calling it.
C2_PromptNeverEmpty ==
    /\ call_args.called => call_args.prompt_text # <<>>
    /\ (pc = "exited" /\ ~call_args.called) => exit_code # 0

\* C3 (as stated): any exception raised in call_gemini after the credential
\* check is not propagated; the function returns "Error calling Gemini
\* API: " followed by a non-empty description.
C3_AnyExceptionBecomesDescribedError ==
    raised.kind # None
        => /\ pc # "uncaught"
           /\ ret_line = "return 58"
           /\ StartsWith(result, ErrCallingPrefix)
           /\ Len(result) > Len(ErrCallingPrefix)

\* C3 (amended): an exception that is an instance of Exception, raised in
\* call_gemini after the credential check, is not propagated; the function
\* returns "Error calling Gemini API: " followed by str(e), which may be
\* empty.
C3_ExceptionBecomesErrorString ==
    raised.kind = "Exception"
        => /\ pc \in {"print", "exit_check", "exited"}
           /\ ret_line = "return 58"
           /\ StartsWith(result, ErrCallingPrefix)
           /\ SubSeq(result, Len(ErrCallingPrefix) + 1, Len(result)) = raised.msg

C3_Witness ==
    /\ pc = "exited"
    /\ api_key.set
    /\ raised.kind = "Exception"
    /\ raised.at = "generate_content"
    /\ raised.msg # <<>>

\* C4: when GEMINI_API_KEY is unset, call_gemini returns exactly
\* "Error: GEMINI_API_KEY environment variable not set." and no call to
\* genai.configure, GenerativeModel or generate_content is ever issued.
C4_UnsetKeyNoClientCall ==
    ~api_key.set
        => /\ NoClientCall
           /\ pc \notin {"configure", "GenerativeModel", "generate_content",
                         "candidates", "text", "uncaught"}
           /\ call_args.called => (result = ErrNoKey /\ ret_line = "return 39")

C4_Witness ==
    /\ ~api_key.set
    /\ call_args.called
    /\ pc = "exited"
    /\ stdout = <<ErrNoKey>>

\* C5: a run whose API call completed without error (the text of a response
\* with candidates was extracted) exits with code 0, and exit code 1 occurs
\* only when no prompt was resolved or call_gemini returned an error Result.
C5_SuccessExitsZero ==
    pc = "exited"
        => /\ ret_line = "return 55" => exit_code = 0
           /\ exit_code = 1 => (~call_args.called \/ ret_line \in ErrorReturns)

\* C6: with no positional arguments and empty or whitespace-only standard
\* input, main() writes the no-prompt error followed by the help text to
\* standard error and exits with code 1; call_gemini is never called, no
\* API call is made and nothing is written to standard output.
C6_NoPromptExitsOne ==
    (cmdline.parts = <<>> /\ AllWhitespace(stdin))
        => /\ ~call_args.called
           /\ NoClientCall
           /\ stdout = <<>>
           /\ pc \in {"parse_args", "resolve", "read_stdin", "exited"}
           /\ pc = "exited"
                => /\ exit_code = 1
                   /\ Len(stderr) >= 2
                   /\ SubSeq(stderr, Len(stderr) - 1, Len(stderr))
                        = <<NoPromptMsg, HelpText>>

C6_Witness ==
    /\ cmdline.parts = <<>>
    /\ stdin # <<>>
    /\ AllWhitespace(stdin)
    /\ pc = "exited"
    /\ Issued("stdin.read")

\* C7: when generate_content returned a response whose candidate list is
\* empty (and reading the list did not raise), call_gemini returns exactly
\* "Error: No content generated (check safety settings or prompt)." and
\* response.text is never read.
C7_NoCandidatesNoText ==
    (response.received /\ response.candidates = 0)
        => /\ ~Issued("response.text")
           /\ pc # "text"
           /\ (pc # "candidates" /\ raised.kind = None)
                => (result = ErrNoContent /\ ret_line = "return 54")

C7_Witness ==
    /\ response.received
    /\ response.candidates = 0
    /\ response.text # <<>>
    /\ raised.kind = None
    /\ pc = "exited"
    /\ stdout = <<ErrNoContent>>

\* C8: for a non-empty sequence of positional arguments, the Prompt passed
\* to call_gemini is the arguments joined by single spaces, whatever
\* standard input holds, and the model passed is the --model value, or the
\* flag default "gemini-1.5-flash-latest" when --model is absent.
C8_PromptIsJoinedArgs ==
    cmdline.parts # <<>>
        => /\ pc \notin {"parse_args", "resolve"} => call_args.called \/ pc = "call_gemini"
           /\ pc = "call_gemini" => IsJoinOf(prompt, cmdline.parts)
           /\ call_args.called
                => /\ IsJoinOf(call_args.prompt_text, cmdline.parts)
                   /\ call_args.model_name =
                        (IF cmdline.model = None
                         THEN "gemini-1.5-flash-latest"
                         ELSE cmdline.model)

C8_Witness ==
    /\ Len(cmdline.parts) = 2
    /\ cmdline.parts[1] # <<>>
    /\ cmdline.parts[2] # <<>>
    /\ cmdline.model = None
    /\ stdin # <<>>
    /\ call_args.called
    /\ pc = "exited"

\* C9: generate_content is issued at most once in a run, also after a
\* failure, and standard input is read at most once; standard input is read
\* only when there are no positional arguments, and generate_content is
\* issued only after the Prompt has been resolved and handed to call_gemini.
C9_AtMostOneCallAndOneRead ==
    /\ Count("model.generate_content") <= 1
    /\ Count("stdin.read") <= 1
    /\ Issued("stdin.read") => cmdline.parts = <<>>
    /\ \A i \in 1..Len(log) :
          log[i].op = "model.generate_content"
            => /\ call_args.called
               /\ prompt = call_args.prompt_text
               /\ cmdline.parts = <<>>
                    => \E j \in 1..(i - 1) : log[j].op = "stdin.read"
               /\ \A j \in (i + 1)..Len(log) : log[j].op # "stdin.read"

C9_Witness ==
    /\ pc = "exited"
    /\ cmdline.parts = <<>>
    /\ Count("stdin.read") = 1
    /\ Count("model.generate_content") = 1
    /\ raised.at = "generate_content"

\* C10: the interactive hint is on standard error exactly when there are no
\* positional arguments and standard input is a terminal; it is written
\* before standard input is read; and the resolved Prompt, the call, the
\* rest of standard error and the outcome of an empty Prompt are fixed by
\* the input content alone, with or without the hint.
WithoutHint(out) == SelectSeq(out, LAMBDA m : m # HintMsg)

C10_HintIsAdvisory ==
    /\ (\E i \in 1..Len(stderr) : stderr[i] = HintMsg)
          <=> (cmdline.parts = <<>> /\ isatty /\ pc \notin {"parse_args", "resolve"})
    /\ Len(stderr) - Len(WithoutHint(stderr)) <= 1
    /\ Len(stderr) > Len(WithoutHint(stderr)) => stderr[1] = HintMsg
    /\ (pc = "read_stdin" /\ isatty) => (stderr = <<HintMsg>> /\ ~Issued("stdin.read"))
    /\ Issued("stdin.read")
          => /\ IsTrimOf(prompt, stdin)
             /\ (pc = "exited" /\ prompt = <<>>) <=> ~(call_args.called \/ pc = "call_gemini")
             /\ call_args.called => call_args.prompt_text = prompt
             /\ WithoutHint(stderr) =
                  (IF prompt = <<>> THEN <<NoPromptMsg, HelpText>> ELSE <<>>)
             /\ (pc = "exited" /\ prompt = <<>>) => (exit_code = 1 /\ stdout = <<>>)
             /\ (pc = "exited" /\ prompt # <<>>) => stdout = <<result>>

C10_Witness ==
    /\ cmdline.parts = <<>>
    /\ isatty
    /\ pc = "exited"
    /\ stderr = <<HintMsg>>
    /\ prompt # <<>>
    /\ prompt # stdin
    /\ stdout = <<result>>

====
